---------------------------- MODULE Spec2Model ----------------------------
(***************************************************************************)
(* State-machine model of the App component of the crypto RSI scanner      *)
(* (src/App.tsx): the refresh cycle (fetchData and the interval effect),   *)
(* the alert effect with its per-symbol status map, and the toast queue    *)
(* with the expiry timers of the ToastNotification component.              *)
(*                                                                         *)
(* React scheduling as modelled here.  An event handler or a timer         *)
(* callback runs to completion, React commits the resulting state and then *)
(* runs the effects whose dependencies changed before it handles the next  *)
(* event.  pendingFx holds the effects still to run for the latest commit; *)
(* while it is not empty no other action is enabled.  An effect reads the  *)
(* values of the render it belongs to.  The fetch effect (declared before  *)
(* the alert effect) only writes symbolsData and loading, which the alert  *)
(* effect of the same render does not see, and the alert effect writes     *)
(* nothing the fetch effect reads; so the model runs "alert" before        *)
(* "fetch" and applies each effect's writes at once, which yields the same *)
(* states as React's staged writes.  A re-run of the alert effect asked    *)
(* for by its own setLastAlertedRsiStatus belongs to the next render and   *)
(* is queued behind the effects of the current one.                        *)
(***************************************************************************)
EXTENDS Integers, Sequences, FiniteSets, TLC

(***************************************************************************)
(* Bounds of the model.                                                    *)
(***************************************************************************)
\* Refresh cycles that may be pending together.
MaxInFlight == 2
\* Toasts that may be queued together (events that can add toasts wait).
MaxToasts == 2
\* Pending exit timeouts a user's clicks on Close may pile up.
MaxExitTimers == 1
\* The 5000 ms expiry timeout and the 300 ms exit timeout, in clock ticks.
ToastTimeoutTicks == 2
ExitDelayTicks == 1
\* Refresh completions and toggles the history of SpecTicks records.
MaxTicks == 5

(***************************************************************************)
(* Program constants.                                                      *)
(***************************************************************************)
overboughtThreshold == 70
oversoldThreshold == 30

ALLOWED_TIMEFRAMES_FOR_ALERTS ==
    {"15m", "30m", "1h", "2h", "4h", "8h", "1d", "3d", "1w"}

\* The timeframes the header offers: one below the allow-list, two on it.
TIMEFRAMES == {"5m", "15m", "1h"}

Symbols == {"A", "B"}
DEFAULT_SYMBOLS == <<"A", "B">>
\* The lists of tracked symbols the asset modal may save or storage may hold.
SymbolLists == {<< >>, <<"A">>, <<"A", "B">>}

\* The rsi series a fetch may deliver (a SymbolData is modelled by its rsi):
\* empty, at either threshold, and neutral after overbought.
RsiSeries == {<< >>, <<30>>, <<70>>, <<70, 50>>}

(***************************************************************************)
(* A JavaScript object with string keys: its entries <<key, value>> in     *)
(* insertion order, which is the order of Object.keys and JSON.stringify.  *)
(***************************************************************************)
ObjKeys(o) == [i \in 1..Len(o) |-> o[i][1]]

ObjHas(o, k) == \E i \in 1..Len(o) : o[i][1] = k

ObjGet(o, k) == o[CHOOSE i \in 1..Len(o) : o[i][1] = k][2]

\* Mutant: the assignment is lost.
ObjSetLost(o, k, v) == o

\* Mutant: every assignment adds an entry.
ObjSetAppending(o, k, v) == Append(o, <<k, v>>)

\* o[k] = v: an existing key keeps its place, a new key goes last.
ObjSet(o, k, v) ==
    IF ObjHas(o, k)
    THEN [i \in 1..Len(o) |-> IF o[i][1] = k THEN <<k, v>> ELSE o[i]]
    ELSE Append(o, <<k, v>>)

\* JSON.stringify of an object of strings: the keys and values as they are
\* written out, in insertion order.
RECURSIVE JsonStringify(_)
JsonStringify(o) ==
    IF o = << >> THEN << >>
    ELSE <<Head(o)[1], ":", Head(o)[2], ",">> \o JsonStringify(Tail(o))

Range(s) == {s[i] : i \in 1..Len(s)}

(***************************************************************************)
(* State.                                                                  *)
(***************************************************************************)
VARIABLES
    timeframe,              \* useState<Timeframe>
    userSymbols,            \* useState<string[]>: the tracked symbols
    userSymbolsIsDefault,   \* userSymbols is the DEFAULT_SYMBOLS array itself
    symbolsData,            \* useState<Record<string, SymbolData>>: the snapshot
    loading,                \* useState(true)
    areAlertsEnabled,       \* useState<boolean>
    lastAlertedRsiStatus,   \* useState<Record<string, status>>
    toasts,                 \* useState<Toast[]>
    views,                  \* the mounted ToastNotification of each toast
    exitTimers,             \* pending setTimeout(() => onRemove(id), 300)
    inFlight,               \* fetchData calls awaiting their Promise.all
    now,                    \* Date.now(), up to renumbering (see Renumber)
    pendingFx,              \* effects to run for the latest commit
    ev,                     \* history: the step that led to this state
    tickLog                 \* history: the ticks and toggles seen (SpecTicks),
                            \* and the timeframe the snapshot was fetched for

vars == <<timeframe, userSymbols, userSymbolsIsDefault, symbolsData, loading,
          areAlertsEnabled, lastAlertedRsiStatus, toasts, views, exitTimers,
          inFlight, now, pendingFx, ev, tickLog>>

appVars == <<timeframe, userSymbols, userSymbolsIsDefault, symbolsData,
             loading, areAlertsEnabled, lastAlertedRsiStatus, inFlight>>

Idle == pendingFx = << >>


(***************************************************************************)
(* Rendering.  removeToast is a new function on every render of App, and   *)
(* the expiry effect of ToastNotification depends on it: each render of    *)
(* App clears and re-arms the expiry timer of every mounted toast.         *)
(***************************************************************************)
NewView == [timer |-> ToastTimeoutTicks, isExiting |-> FALSE]

RearmAll(vs) == [i \in 1..Len(vs) |-> [vs[i] EXCEPT !.timer = ToastTimeoutTicks]]

\* The views after a handler: re-armed when App rendered again.
AfterRender(vs, rendered) == IF rendered THEN RearmAll(vs) ELSE vs

AddFx(q, fx) == IF fx \in Range(q) THEN q ELSE Append(q, fx)

RemoveAt(s, i) == [k \in 1..(Len(s) - 1) |-> IF k < i THEN s[k] ELSE s[k + 1]]

(***************************************************************************)
(* The alert effect's classification of one symbol of the snapshot.        *)
(***************************************************************************)
LastRsi(series) == series[Len(series)]

\* Mutant: the thresholds themselves count as neutral.
CurrentStatusStrict(lastRsi) ==
    IF lastRsi > overboughtThreshold THEN "overbought"
    ELSE IF lastRsi < oversoldThreshold THEN "oversold"
    ELSE "neutral"

CurrentStatus(lastRsi) ==
    IF lastRsi >= overboughtThreshold THEN "overbought"
    ELSE IF lastRsi <= oversoldThreshold THEN "oversold"
    ELSE "neutral"

\* Mutant: the recorded status is never consulted.
PreviousStatusUnrecorded(last, symbol) == "neutral"

\* lastAlertedRsiStatus[symbol] || 'neutral'
PreviousStatus(last, symbol) ==
    IF ObjHas(last, symbol) THEN ObjGet(last, symbol) ELSE "neutral"

\* Mutant: the comparison with the status recorded before is left out.
ShouldToastUndebounced(cur, previousStatus) ==
    cur \in {"overbought", "oversold"}

\* Whether the loop body calls addToast for a symbol of status cur.
ShouldToast(cur, previousStatus) ==
    /\ cur \in {"overbought", "oversold"}
    /\ previousStatus # cur

\* The forEach over Object.keys(symbolsData), from entry i on: acc holds
\* newAlertStatus and the toasts handed to addToast so far (without id).
RECURSIVE EvalSymbols(_, _, _, _, _)
\* Mutant: a symbol with an empty series is recorded as neutral.
EvalSymbolsEmptyNeutral(sd, last, tf, i, acc) ==
    IF i > Len(sd) THEN acc
    ELSE LET symbol == sd[i][1]
             rsi == sd[i][2]
             lastRsi == IF Len(rsi) = 0 THEN 50 ELSE LastRsi(rsi)
             cur == CurrentStatus(lastRsi)
             toast == [symbol |-> symbol, timeframe |-> tf,
                       rsi |-> lastRsi, type |-> cur]
             added == IF ShouldToast(cur, PreviousStatus(last, symbol))
                      THEN Append(acc.added, toast)
                      ELSE acc.added
         IN  EvalSymbols(sd, last, tf, i + 1,
                         [status |-> ObjSet(acc.status, symbol, cur),
                          added |-> added])

EvalSymbols(sd, last, tf, i, acc) ==
    IF i > Len(sd) THEN acc
    ELSE LET symbol == sd[i][1]
             rsi == sd[i][2]
         IN  IF Len(rsi) = 0 THEN EvalSymbols(sd, last, tf, i + 1, acc)
             ELSE LET lastRsi == LastRsi(rsi)
                      cur == CurrentStatus(lastRsi)
                      toast == [symbol |-> symbol, timeframe |-> tf,
                                rsi |-> lastRsi, type |-> cur]
                      added == IF ShouldToast(cur, PreviousStatus(last, symbol))
                               THEN Append(acc.added, toast)
                               ELSE acc.added
                  IN  EvalSymbols(sd, last, tf, i + 1,
                                  [status |-> ObjSet(acc.status, symbol, cur),
                                   added |-> added])

\* Mutant: the guard without the enabled flag.
GateOpenIgnoringFlag(en, tf, sd) ==
    /\ tf \in ALLOWED_TIMEFRAMES_FOR_ALERTS
    /\ Len(sd) # 0

\* The guard of the effect: it returns at once unless this holds.
GateOpen(en, tf, sd) ==
    /\ en
    /\ tf \in ALLOWED_TIMEFRAMES_FOR_ALERTS
    /\ Len(sd) # 0

\* Mutant: a run that returns early also forgets the recorded statuses.
AlertEvalForgetful(sd, en, tf, last) ==
    IF GateOpen(en, tf, sd)
    THEN EvalSymbols(sd, last, tf, 1, [status |-> last, added |-> << >>])
    ELSE [status |-> << >>, added |-> << >>]

\* Mutant: the new status map starts empty instead of as a copy of the old.
AlertEvalFresh(sd, en, tf, last) ==
    IF GateOpen(en, tf, sd)
    THEN EvalSymbols(sd, last, tf, 1, [status |-> << >>, added |-> << >>])
    ELSE [status |-> last, added |-> << >>]

\* What one run of the effect computes from the values of its render.
AlertEval(sd, en, tf, last) ==
    IF GateOpen(en, tf, sd)
    THEN EvalSymbols(sd, last, tf, 1, [status |-> last, added |-> << >>])
    ELSE [status |-> last, added |-> << >>]

\* The model's bound on the queue: an event whose alert evaluation would
\* push the queue past MaxToasts waits.
Room(sd, en, tf) ==
    LET n == Len(AlertEval(sd, en, tf, lastAlertedRsiStatus).added)
    IN  n > 0 => Len(toasts) + n <= MaxToasts

(***************************************************************************)
(* Clock values.  The program compares ids for equality only (the filter   *)
(* of removeToast, the key of a ToastNotification) and the claims compare  *)
(* them for equality and order.  The model keeps the readings of Date.now()*)
(* up to an order-preserving renumbering: whenever the clock moves, the    *)
(* ids still in use (of queued toasts and of pending exit timeouts) and    *)
(* the clock are renumbered 0, 1, 2, ... in their order.                   *)
(***************************************************************************)
LiveIds(ts, xs) ==
    {ts[i].id : i \in 1..Len(ts)} \cup {xs[j].id : j \in 1..Len(xs)}

Rank(v, V) == Cardinality({u \in V : u < v})

Renumber(s, V) == [i \in 1..Len(s) |-> [s[i] EXCEPT !.id = Rank(@, V)]]

(***************************************************************************)
(* addToast: the id is Date.now() when the updater runs.  Between events   *)
(* time passes by Tick; between two updaters of one evaluation the clock   *)
(* may or may not have moved: adv[k] is what it moved before the k-th one, *)
(* and nothing before the first.                                           *)
(***************************************************************************)
RECURSIVE SumTo(_, _)
SumTo(adv, k) == IF k = 0 THEN 0 ELSE adv[k] + SumTo(adv, k - 1)

WithIds(added, adv, t0) ==
    [k \in 1..Len(added) |->
        [id |-> t0 + SumTo(adv, k), symbol |-> added[k].symbol,
         timeframe |-> added[k].timeframe, rsi |-> added[k].rsi,
         type |-> added[k].type]]

\* removeToast: prev.filter(toast => toast.id !== id), on the queue and on
\* the components mounted for it.
KeptIdx(ts, id) == {i \in 1..Len(ts) : ts[i].id # id}

RECURSIVE FilterIdx(_, _, _)
FilterIdx(s, keep, i) ==
    IF i > Len(s) THEN << >>
    ELSE (IF i \in keep THEN <<s[i]>> ELSE << >>) \o FilterIdx(s, keep, i + 1)

\* Mutant: removal by position, ts.splice(ts.findIndex(...), 1): for an id
\* that is not queued the position is -1 and the last toast goes.
RemoveToastSplice(ts, id) ==
    IF \E i \in 1..Len(ts) : ts[i].id = id
    THEN LET k == CHOOSE i \in 1..Len(ts) :
                      /\ ts[i].id = id
                      /\ \A j \in 1..(i - 1) : ts[j].id # id
         IN  FilterIdx(ts, (1..Len(ts)) \ {k}, 1)
    ELSE FilterIdx(ts, 1..(Len(ts) - 1), 1)

RemoveToastFrom(ts, id) == FilterIdx(ts, KeptIdx(ts, id), 1)

(***************************************************************************)
(* Initial state: App has rendered once and its mount effects are due.     *)
(* userSymbols and areAlertsEnabled come from localStorage or its defaults.*)
(***************************************************************************)
Init ==
    /\ timeframe = "15m"
    /\ userSymbols \in SymbolLists
    /\ userSymbolsIsDefault \in {userSymbols = DEFAULT_SYMBOLS, FALSE}
    /\ symbolsData = << >>
    /\ loading = TRUE
    /\ areAlertsEnabled \in BOOLEAN
    /\ lastAlertedRsiStatus = << >>
    /\ toasts = << >>
    /\ views = << >>
    /\ exitTimers = << >>
    /\ inFlight = << >>
    /\ now = 0
    /\ pendingFx = <<"alert", "fetch">>
    /\ ev = [kind |-> "mount"]
    /\ tickLog = [logging |-> FALSE, entries |-> << >>, fetchedFor |-> "none"]

(***************************************************************************)
(* The state initializers that read localStorage.  A stored text is the    *)
(* sequence of its JSON tokens: "[", "]", ",", true, false, a string       *)
(* literal (written as the string), and "x" for anything that is no token. *)
(* An item is what getItem returns: null (not present) or the text.        *)
(***************************************************************************)
Absent == [present |-> FALSE, text |-> << >>]

Stored(text) == [present |-> TRUE, text |-> text]

\* The elements between the brackets: string literals separated by commas.
IsElements(inner) ==
    \/ Len(inner) = 0
    \/ /\ Len(inner) % 2 = 1
       /\ \A i \in 1..Len(inner) :
             IF i % 2 = 1 THEN inner[i] \in Symbols ELSE inner[i] = ","

\* JSON.parse: the value of a text, or the SyntaxError it throws.
JsonParse(text) ==
    IF text = <<"true">> THEN [ok |-> TRUE, value |-> TRUE]
    ELSE IF text = <<"false">> THEN [ok |-> TRUE, value |-> FALSE]
    ELSE IF Len(text) = 1 /\ text[1] \in Symbols
    THEN [ok |-> TRUE, value |-> text[1]]
    ELSE IF /\ Len(text) >= 2
            /\ text[1] = "[" /\ text[Len(text)] = "]"
            /\ IsElements(SubSeq(text, 2, Len(text) - 1))
    THEN [ok |-> TRUE,
          value |-> [k \in 1..((Len(text) - 1) \div 2) |-> text[2 * k]]]
    ELSE [ok |-> FALSE, value |-> "SyntaxError"]

\* Mutant: the initializer without its try/catch: the SyntaxError escapes.
FromStorageUncaught(item, default) ==
    IF ~item.present \/ item.text = << >>
    THEN [threw |-> FALSE, value |-> default]
    ELSE IF JsonParse(item.text).ok
    THEN [threw |-> FALSE, value |-> JsonParse(item.text).value]
    ELSE [threw |-> TRUE, value |-> default]

\* try { return saved ? JSON.parse(saved) : default } catch { return default }
\* with whether the initializer threw.
FromStorage(item, default) ==
    IF ~item.present \/ item.text = << >>
    THEN [threw |-> FALSE, value |-> default]
    ELSE IF JsonParse(item.text).ok
    THEN [threw |-> FALSE, value |-> JsonParse(item.text).value]
    ELSE [threw |-> FALSE, value |-> default]

\* The four initial values, from the stored items st, and whether the
\* first render failed.
BootValues(st) ==
    LET all == FromStorage(st.allSymbols, DEFAULT_SYMBOLS)
        user == FromStorage(st.userSymbols, all.value)
        fav == FromStorage(st.favorites, << >>)
        alerts == FromStorage(st.areAlertsEnabled, FALSE)
    IN  [allSymbols |-> all.value,
         userSymbols |-> user.value,
         favorites |-> fav.value,
         areAlertsEnabled |-> alerts.value,
         failed |-> all.threw \/ user.threw \/ fav.threw \/ alerts.threw]

\* Whether the item made its initializer return its default.
Defaulted(item) ==
    ~item.present \/ item.text = << >> \/ ~JsonParse(item.text).ok

(***************************************************************************)
(* fetchData, up to its await: with no tracked symbol it empties the       *)
(* snapshot; otherwise it issues one fetch per tracked symbol and awaits   *)
(* them together.  A pending call keeps the userSymbols it closed over     *)
(* and the timeframe it was called with.                                   *)
(***************************************************************************)
FetchData(selectedTimeframe) ==
    IF Len(userSymbols) = 0
    THEN /\ symbolsData' = << >>
         /\ loading' = FALSE
         /\ inFlight' = inFlight
    ELSE /\ loading' = TRUE
         /\ inFlight' = Append(inFlight, [symbols |-> userSymbols,
                                          timeframe |-> selectedTimeframe])
         /\ UNCHANGED symbolsData

\* There is room for the cycle a fetchData would start.
CycleRoom(symbols) == Len(symbols) = 0 \/ Len(inFlight) < MaxInFlight

\* The refresh effect: fetchData(timeframe) now, and the interval re-created.
FetchEffect ==
    /\ pendingFx # << >>
    /\ Head(pendingFx) = "fetch"
    /\ FetchData(timeframe)
    /\ pendingFx' = IF Len(userSymbols) = 0
                    THEN AddFx(Tail(pendingFx), "alert")
                    ELSE Tail(pendingFx)
    /\ views' = RearmAll(views)
    /\ ev' = [kind |-> "fetchFx"]
    /\ UNCHANGED <<timeframe, userSymbols, userSymbolsIsDefault, areAlertsEnabled,
                   lastAlertedRsiStatus, toasts, exitTimers, now, tickLog>>

\* setInterval(() => fetchData(timeframe), 60000) fires.
IntervalFire ==
    /\ Idle
    /\ CycleRoom(userSymbols)
    /\ FetchData(timeframe)
    /\ pendingFx' = IF Len(userSymbols) = 0 THEN <<"alert">> ELSE << >>
    /\ views' = AfterRender(views, Len(userSymbols) = 0 \/ ~loading)
    /\ ev' = [kind |-> "interval"]
    /\ UNCHANGED <<timeframe, userSymbols, userSymbolsIsDefault, areAlertsEnabled,
                   lastAlertedRsiStatus, toasts, exitTimers, now, tickLog>>

\* Mutant: the snapshot is handed over after the first entry.
NewDataPartial(symbols, results) ==
    <<<<symbols[1], results[symbols[1]]>>>>

\* newData: one entry per symbol the call closed over, in their order.
NewData(symbols, results) ==
    [k \in 1..Len(symbols) |-> <<symbols[k], results[symbols[k]]>>]

(***************************************************************************)
(* History for the claims about sequences of ticks.  Where logging is on   *)
(* (SpecTicks), tickLog.entries records, for WatchSymbol, each refresh     *)
(* completion that delivered it a non-empty series (its latest RSI value   *)
(* and whether alerting was enabled) and each alerts toggle, with the      *)
(* number of toasts queued for the symbol until the next entry; once       *)
(* MaxTicks entries are logged, no further completion or toggle occurs.    *)
(***************************************************************************)
WatchSymbol == "A"

LogRoom == ~tickLog.logging \/ Len(tickLog.entries) < MaxTicks

LogTick(log, data, en) ==
    IF log.logging /\ ObjHas(data, WatchSymbol)
                   /\ Len(ObjGet(data, WatchSymbol)) > 0
    THEN [log EXCEPT !.entries =
              Append(@, [what |-> "tick", on |-> en, emitted |-> 0,
                         rsi |-> LastRsi(ObjGet(data, WatchSymbol))])]
    ELSE log

LogToggle(log, en) ==
    IF log.logging
    THEN [log EXCEPT !.entries =
              Append(@, [what |-> "toggle", on |-> en, emitted |-> 0, rsi |-> 0])]
    ELSE log

\* Promise.all fulfils: every fetch of pending call i delivered its data.
ResolveCycle(i, results) ==
    /\ Idle
    /\ i \in 1..Len(inFlight)
    /\ LogRoom
    /\ LET c == inFlight[i]
           newData == NewData(c.symbols, results)
       IN  /\ Room(newData, areAlertsEnabled, timeframe)
           /\ symbolsData' = newData
           /\ loading' = FALSE
           /\ inFlight' = RemoveAt(inFlight, i)
           /\ tickLog' = [LogTick(tickLog, newData, areAlertsEnabled)
                             EXCEPT !.fetchedFor = c.timeframe]
           /\ ev' = [kind |-> "resolve", cycle |-> c]
    /\ pendingFx' = <<"alert">>
    /\ views' = RearmAll(views)
    /\ UNCHANGED <<timeframe, userSymbols, userSymbolsIsDefault, areAlertsEnabled,
                   lastAlertedRsiStatus, toasts, exitTimers, now>>

\* Mutant: the fetches are settled one by one and the entries of those that
\* delivered replace the old ones.
RejectCycleMerging(i, outcomes) ==
    /\ Idle
    /\ i \in 1..Len(inFlight)
    /\ \E s \in Range(inFlight[i].symbols) : ~outcomes[s].ok
    /\ LET symbols == inFlight[i].symbols
           delivered == {k \in 1..Len(symbols) : outcomes[symbols[k]].ok}
           kept == FilterIdx(symbols, delivered, 1)
       IN  symbolsData' = [k \in 1..Len(kept) |-> <<kept[k], outcomes[kept[k]].rsi>>]
    /\ loading' = FALSE
    /\ inFlight' = RemoveAt(inFlight, i)
    /\ views' = RearmAll(views)
    /\ pendingFx' = <<"alert">>
    /\ ev' = [kind |-> "reject", cycle |-> inFlight[i], outcomes |-> outcomes,
              before |-> symbolsData]
    /\ UNCHANGED <<timeframe, userSymbols, userSymbolsIsDefault,
                   areAlertsEnabled, lastAlertedRsiStatus, toasts, exitTimers,
                   now, tickLog>>

\* Promise.all rejects: a fetch of pending call i failed (outcomes tells
\* which, and what the others delivered).  The catch logs; finally runs.
RejectCycle(i, outcomes) ==
    /\ Idle
    /\ i \in 1..Len(inFlight)
    /\ \E s \in Range(inFlight[i].symbols) : ~outcomes[s].ok
    /\ loading' = FALSE
    /\ inFlight' = RemoveAt(inFlight, i)
    /\ views' = AfterRender(views, loading)
    /\ ev' = [kind |-> "reject", cycle |-> inFlight[i], outcomes |-> outcomes,
              before |-> symbolsData]
    /\ UNCHANGED <<timeframe, userSymbols, userSymbolsIsDefault, symbolsData,
                   areAlertsEnabled, lastAlertedRsiStatus, toasts, exitTimers,
                   now, pendingFx, tickLog>>

(***************************************************************************)
(* The alert effect.                                                       *)
(***************************************************************************)
LogEmitted(log, added) ==
    IF log.entries = << >> THEN log
    ELSE [log EXCEPT !.entries[Len(log.entries)].emitted =
              @ + Cardinality({k \in 1..Len(added) : added[k].symbol = WatchSymbol})]

AlertEffect ==
    /\ pendingFx # << >>
    /\ Head(pendingFx) = "alert"
    /\ LET r == AlertEval(symbolsData, areAlertsEnabled, timeframe,
                          lastAlertedRsiStatus)
           n == Len(r.added)
           changed == JsonStringify(r.status) # JsonStringify(lastAlertedRsiStatus)
       IN  /\ \E adv \in [1..n -> {0, 1}] :
                 /\ n > 0 => adv[1] = 0
                 /\ LET queued == toasts \o WithIds(r.added, adv, now)
                        later == now + SumTo(adv, n)
                        V == LiveIds(queued, exitTimers) \cup {later}
                    IN  IF n = 0
                        THEN UNCHANGED <<toasts, exitTimers, now>>
                        ELSE /\ toasts' = Renumber(queued, V)
                             /\ exitTimers' = Renumber(exitTimers, V)
                             /\ now' = Rank(later, V)
           /\ lastAlertedRsiStatus' = IF changed THEN r.status
                                      ELSE lastAlertedRsiStatus
           /\ pendingFx' = IF changed THEN AddFx(Tail(pendingFx), "alert")
                           ELSE Tail(pendingFx)
           /\ views' = AfterRender(views, changed \/ n > 0)
                           \o [k \in 1..n |-> NewView]
           /\ tickLog' = LogEmitted(tickLog, r.added)
           /\ ev' = [kind |-> "eval", prev |-> lastAlertedRsiStatus, added |-> n,
                     after |-> ev.kind]
    /\ UNCHANGED <<timeframe, userSymbols, userSymbolsIsDefault, symbolsData,
                   loading, areAlertsEnabled, inFlight>>

(***************************************************************************)
(* Handlers.                                                               *)
(***************************************************************************)
handleAlertsToggle ==
    /\ Idle
    /\ LogRoom
    /\ Room(symbolsData, ~areAlertsEnabled, timeframe)
    /\ areAlertsEnabled' = ~areAlertsEnabled
    /\ pendingFx' = <<"alert">>
    /\ views' = RearmAll(views)
    /\ ev' = [kind |-> "toggle"]
    /\ tickLog' = LogToggle(tickLog, ~areAlertsEnabled)
    /\ UNCHANGED <<timeframe, userSymbols, userSymbolsIsDefault, symbolsData,
                   loading, lastAlertedRsiStatus, toasts, exitTimers, inFlight,
                   now>>

handleTimeframeChange(newTimeframe) ==
    /\ Idle
    /\ newTimeframe # timeframe
    /\ Room(symbolsData, areAlertsEnabled, newTimeframe)
    /\ CycleRoom(userSymbols)
    /\ timeframe' = newTimeframe
    /\ pendingFx' = <<"alert", "fetch">>
    /\ views' = RearmAll(views)
    /\ ev' = [kind |-> "timeframe"]
    /\ UNCHANGED <<userSymbols, userSymbolsIsDefault, symbolsData, loading,
                   areAlertsEnabled, lastAlertedRsiStatus, toasts, exitTimers,
                   inFlight, now, tickLog>>

handleSaveAssetList(selectedSymbols) ==
    /\ Idle
    /\ CycleRoom(selectedSymbols)
    /\ userSymbols' = selectedSymbols
    /\ userSymbolsIsDefault' = FALSE
    /\ pendingFx' = <<"fetch">>
    /\ views' = RearmAll(views)
    /\ ev' = [kind |-> "save"]
    /\ UNCHANGED <<timeframe, symbolsData, loading, areAlertsEnabled,
                   lastAlertedRsiStatus, toasts, exitTimers, inFlight, now,
                   tickLog>>

handleResetSettings ==
    /\ Idle
    /\ userSymbolsIsDefault \/ CycleRoom(DEFAULT_SYMBOLS)
    /\ userSymbols' = DEFAULT_SYMBOLS
    /\ userSymbolsIsDefault' = TRUE
    /\ areAlertsEnabled' = FALSE
    /\ pendingFx' = (IF areAlertsEnabled THEN <<"alert">> ELSE << >>)
                    \o (IF userSymbolsIsDefault THEN << >> ELSE <<"fetch">>)
    /\ views' = RearmAll(views)
    /\ ev' = [kind |-> "reset"]
    /\ UNCHANGED <<timeframe, symbolsData, loading, lastAlertedRsiStatus, toasts,
                   exitTimers, inFlight, now, tickLog>>

\* Any other state change of App (search term, sort order, cell size,
\* favorites, panels): App renders again and nothing modelled here changes
\* but the toasts' timers.
UiRender ==
    /\ Idle
    /\ toasts # << >>
    /\ views' = RearmAll(views)
    /\ ev' = [kind |-> "ui"]
    /\ UNCHANGED <<appVars, toasts, exitTimers, now, pendingFx, tickLog>>

(***************************************************************************)
(* Time and the timers of ToastNotification.  A timer value counts the     *)
(* ticks left; 0 is due; -1 is no timer armed (it fired).  Time does not   *)
(* pass a due timer.                                                       *)
(***************************************************************************)
TimersDue ==
    \/ \E i \in 1..Len(views) : views[i].timer = 0
    \/ \E j \in 1..Len(exitTimers) : exitTimers[j].remaining = 0

Tick ==
    /\ Idle
    /\ ~TimersDue
    /\ LET V == LiveIds(toasts, exitTimers) \cup {now}
       IN  /\ now' = Rank(now, V) + 1
           /\ toasts' = Renumber(toasts, V)
           /\ exitTimers' = Renumber([j \in 1..Len(exitTimers) |->
                                        [exitTimers[j] EXCEPT !.remaining = @ - 1]],
                                     V)
    /\ views' = [i \in 1..Len(views) |->
                    IF views[i].timer > 0
                    THEN [views[i] EXCEPT !.timer = @ - 1] ELSE views[i]]
    /\ ev' = [kind |-> "tick"]
    /\ UNCHANGED <<appVars, pendingFx, tickLog>>

\* The 5000 ms timer of toast i fires: setIsExiting(true) and the exit timeout.
ExpiryTimeout(i) ==
    /\ Idle
    /\ i \in 1..Len(views)
    /\ views[i].timer = 0
    /\ views' = [views EXCEPT ![i] = [timer |-> -1, isExiting |-> TRUE]]
    /\ exitTimers' = Append(exitTimers,
                            [id |-> toasts[i].id, remaining |-> ExitDelayTicks,
                             by |-> "expiry"])
    /\ ev' = [kind |-> "expire", id |-> toasts[i].id]
    /\ UNCHANGED <<appVars, toasts, now, pendingFx, tickLog>>

ClosePending == Cardinality({j \in 1..Len(exitTimers) : exitTimers[j].by = "close"})

\* The user clicks Close on toast i.
handleClose(i) ==
    /\ Idle
    /\ i \in 1..Len(views)
    /\ ClosePending < MaxExitTimers
    /\ views' = [views EXCEPT ![i].isExiting = TRUE]
    /\ exitTimers' = Append(exitTimers,
                            [id |-> toasts[i].id, remaining |-> ExitDelayTicks,
                             by |-> "close"])
    /\ ev' = [kind |-> "close", id |-> toasts[i].id]
    /\ UNCHANGED <<appVars, toasts, now, pendingFx, tickLog>>

\* Exit timeout j fires: onRemove(toast.id), that is removeToast(id).
ExitTimeout(j) ==
    /\ Idle
    /\ j \in 1..Len(exitTimers)
    /\ exitTimers[j].remaining = 0
    /\ LET id == exitTimers[j].id
       IN  /\ toasts' = RemoveToastFrom(toasts, id)
           /\ views' = RearmAll(FilterIdx(views, KeptIdx(toasts, id), 1))
           /\ ev' = [kind |-> "remove", id |-> id, before |-> toasts]
    /\ exitTimers' = RemoveAt(exitTimers, j)
    /\ UNCHANGED <<appVars, now, pendingFx, tickLog>>

(***************************************************************************)
(* Specifications.  Spec is the whole program.  The others run the same    *)
(* actions in a narrower environment, each with the part of the program    *)
(* its claims are about: the exhaustive search of Spec is out of reach.    *)
(***************************************************************************)
\* What the fetches of a pending call may deliver.
Results(symbols, series) == [Range(symbols) -> series]

\* A fetch fulfils with its data or rejects.
Rejected == [ok |-> FALSE, rsi |-> << >>]

Outcomes(symbols) ==
    [Range(symbols) -> {[ok |-> TRUE, rsi |-> r] : r \in RsiSeries} \cup {Rejected}]

Effects == FetchEffect \/ AlertEffect

Resolve(series) ==
    \E i \in 1..Len(inFlight) : \E r \in Results(inFlight[i].symbols, series) :
        ResolveCycle(i, r)

Reject ==
    \E i \in 1..Len(inFlight) : \E o \in Outcomes(inFlight[i].symbols) :
        RejectCycle(i, o)

ToastTimers ==
    \/ Tick
    \/ \E i \in 1..Len(views) : ExpiryTimeout(i)
    \/ \E j \in 1..Len(exitTimers) : ExitTimeout(j)

Next ==
    \/ Effects
    \/ IntervalFire
    \/ Resolve(RsiSeries)
    \/ Reject
    \/ handleAlertsToggle
    \/ \E tf \in TIMEFRAMES : handleTimeframeChange(tf)
    \/ \E l \in SymbolLists : handleSaveAssetList(l)
    \/ handleResetSettings
    \/ UiRender
    \/ \E i \in 1..Len(views) : handleClose(i)
    \/ ToastTimers

Spec == Init /\ [][Next]_vars

\* Environment: a refresh starts only when none is pending.
NoOverlap == inFlight = << >>

\* Environment: the toasts of an alert evaluation have expired before the
\* next timeframe change, and before the next completion or toggle unless
\* alerting is then off.
Quiet == toasts = << >> /\ exitTimers = << >>

(***************************************************************************)
(* SpecFetch, the refresh cycle: alerting stays off, no toast is queued.   *)
(***************************************************************************)
InitFetch == Init /\ ~areAlertsEnabled

NextFetch ==
    \/ Effects
    \/ IntervalFire
    \/ Resolve(RsiSeries)
    \/ Reject
    \/ \E tf \in TIMEFRAMES : handleTimeframeChange(tf)
    \/ \E l \in SymbolLists : handleSaveAssetList(l)
    \/ handleResetSettings

SpecFetch == InitFetch /\ [][NextFetch]_vars

(***************************************************************************)
(* SpecFetchLive: the refresh cycle with the fairness of the event loop    *)
(* and of the network: a pending effect runs, and the fetches of a pending *)
(* cycle settle, fulfilled or rejected.                                    *)
(***************************************************************************)
Settle == Resolve(RsiSeries) \/ Reject

NextFetchLive ==
    \/ Effects
    \/ IntervalFire
    \/ Settle
    \/ \E tf \in TIMEFRAMES : handleTimeframeChange(tf)

SpecFetchLive ==
    /\ InitFetch
    /\ [][NextFetchLive]_vars
    /\ WF_vars(Effects)
    /\ WF_vars(Settle)

(***************************************************************************)
(* SpecSession, a session of the user: timeframe changes, saved asset      *)
(* lists, settings resets and alert toggles between refreshes, with the    *)
(* toasts left to expire before the next event and no refresh overlapping  *)
(* another.                                                                *)
(***************************************************************************)
NextSession ==
    \/ Effects
    \/ NoOverlap /\ IntervalFire
    \/ Quiet /\ Resolve(RsiSeries)
    \/ Quiet /\ handleAlertsToggle
    \/ \E tf \in TIMEFRAMES : Quiet /\ NoOverlap /\ handleTimeframeChange(tf)
    \/ \E l \in SymbolLists : Quiet /\ NoOverlap /\ handleSaveAssetList(l)
    \/ Quiet /\ NoOverlap /\ handleResetSettings
    \/ ToastTimers

SpecSession == Init /\ [][NextSession]_vars

(***************************************************************************)
(* SpecAlert, the alert effect: every snapshot, toggle and timeframe       *)
(* change that reaches it, with the toasts left to expire in between.      *)
(***************************************************************************)
NextAlert ==
    \/ Effects
    \/ NoOverlap /\ IntervalFire
    \/ (Quiet \/ ~areAlertsEnabled) /\ Resolve(RsiSeries)
    \/ (Quiet \/ areAlertsEnabled) /\ handleAlertsToggle
    \/ \E tf \in TIMEFRAMES : Quiet /\ NoOverlap /\ handleTimeframeChange(tf)
    \/ ToastTimers

SpecAlert == Init /\ [][NextAlert]_vars

(***************************************************************************)
(* SpecTicks, sequences of refresh ticks and toggles on one timeframe,     *)
(* logged in tickLog.                                                      *)
(***************************************************************************)
InitTicks ==
    /\ timeframe = "15m"
    /\ userSymbols = <<WatchSymbol>>
    /\ userSymbolsIsDefault = FALSE
    /\ symbolsData = << >>
    /\ loading = TRUE
    /\ areAlertsEnabled \in BOOLEAN
    /\ lastAlertedRsiStatus = << >>
    /\ toasts = << >>
    /\ views = << >>
    /\ exitTimers = << >>
    /\ inFlight = << >>
    /\ now = 0
    /\ pendingFx = <<"alert", "fetch">>
    /\ ev = [kind |-> "mount"]
    /\ tickLog = [logging |-> TRUE, entries |-> << >>, fetchedFor |-> "none"]

NextTicks ==
    \/ Effects
    \/ NoOverlap /\ IntervalFire
    \/ Quiet /\ Resolve(RsiSeries)
    \/ Quiet /\ handleAlertsToggle
    \/ ToastTimers

SpecTicks == InitTicks /\ [][NextTicks]_vars

(***************************************************************************)
(* SpecToast, the toast queue and its timers: both symbols tracked,        *)
(* alerting on, one timeframe.                                             *)
(***************************************************************************)
InitToast == Init /\ areAlertsEnabled /\ userSymbols = DEFAULT_SYMBOLS

ToastSeries == {<<50>>, <<70>>}

NextToast ==
    \/ Effects
    \/ NoOverlap /\ IntervalFire
    \/ Resolve(ToastSeries)
    \/ UiRender
    \/ \E i \in 1..Len(views) : handleClose(i)
    \/ ToastTimers

SpecToast == InitToast /\ [][NextToast]_vars

(***************************************************************************)
(* SpecToastLive: SpecToast with a snapshot arriving only once the queue   *)
(* is empty, and the fairness the event loop gives: time passes, a due     *)
(* timer fires, a pending effect runs.  Nothing is assumed of the user or  *)
(* of the network.                                                         *)
(***************************************************************************)
NextToastLive ==
    \/ Effects
    \/ NoOverlap /\ IntervalFire
    \/ Quiet /\ Resolve(ToastSeries)
    \/ UiRender
    \/ \E i \in 1..Len(views) : handleClose(i)
    \/ ToastTimers

\* SpecQueue: the same steps without the fairness, for the safety claims
\* about the queue.
SpecQueue == InitToast /\ [][NextToastLive]_vars

TimerFires ==
    \/ \E i \in 1..Len(views) : ExpiryTimeout(i)
    \/ \E j \in 1..Len(exitTimers) : ExitTimeout(j)

SpecToastLive ==
    /\ InitToast
    /\ [][NextToastLive]_vars
    /\ WF_vars(Tick)
    /\ WF_vars(TimerFires)
    /\ WF_vars(Effects)

(***************************************************************************)
(* SpecClassify, the classification of RSI values: one symbol tracked,     *)
(* alerting on, series ending at, just below and just above each           *)
(* threshold, and series whose earlier values are of another status than   *)
(* the last.                                                               *)
(***************************************************************************)
InitClassify ==
    /\ Init
    /\ areAlertsEnabled
    /\ userSymbols = <<WatchSymbol>>
    /\ ~userSymbolsIsDefault

ClassifySeries ==
    {<<29>>, <<30>>, <<31>>, <<69>>, <<70>>, <<71>>, <<29, 70>>, <<71, 50>>}

NextClassify ==
    \/ Effects
    \/ NoOverlap /\ IntervalFire
    \/ Quiet /\ Resolve(ClassifySeries)
    \/ ToastTimers

SpecClassify == InitClassify /\ [][NextClassify]_vars

(***************************************************************************)
(* SpecStorage, start-up: what localStorage holds under the four keys, not *)
(* present, malformed or as the program writes it, and the mount effects.  *)
(* The history ev of the initial state keeps the stored items and the      *)
(* initial allSymbols and favorites.                                       *)
(***************************************************************************)
StoredLists ==
    {Absent, Stored(<< >>), Stored(<<"[">>), Stored(<<"[", "A", ",", "]">>),
     Stored(<<"[", "]">>), Stored(<<"[", "A", "]">>),
     Stored(<<"[", "A", ",", "B", "]">>)}

StoredFlags ==
    {Absent, Stored(<< >>), Stored(<<"x">>), Stored(<<"true", "true">>),
     Stored(<<"true">>), Stored(<<"false">>)}

Storages ==
    [allSymbols : StoredLists, userSymbols : StoredLists,
     favorites : StoredLists, areAlertsEnabled : StoredFlags]

InitStorage ==
    \E st \in Storages :
        LET boot == BootValues(st)
        IN  /\ timeframe = "15m"
            /\ userSymbols = boot.userSymbols
            /\ userSymbolsIsDefault = (/\ Defaulted(st.userSymbols)
                                       /\ Defaulted(st.allSymbols))
            /\ symbolsData = << >>
            /\ loading = TRUE
            /\ areAlertsEnabled = boot.areAlertsEnabled
            /\ lastAlertedRsiStatus = << >>
            /\ toasts = << >>
            /\ views = << >>
            /\ exitTimers = << >>
            /\ inFlight = << >>
            /\ now = 0
            /\ pendingFx = <<"alert", "fetch">>
            /\ ev = [kind |-> "mount", storage |-> st,
                     allSymbols |-> boot.allSymbols,
                     favorites |-> boot.favorites, failed |-> boot.failed]
            /\ tickLog = [logging |-> FALSE, entries |-> << >>, fetchedFor |-> "none"]

SpecStorage == InitStorage /\ [][Effects]_vars

(***************************************************************************)
(* Claims.                                                                 *)
(***************************************************************************)
\* The statuses as the specification words them.
Extreme == {"overbought", "oversold"}

StatusOf(value) ==
    IF value >= 70 THEN "overbought"
    ELSE IF value <= 30 THEN "oversold"
    ELSE "neutral"

AllowList == {"15m", "30m", "1h", "2h", "4h", "8h", "1d", "3d", "1w"}

\* The state follows a run of the alert effect.
Evaluated == ev.kind = "eval"

\* Symbol s has a non-empty series in the snapshot.
HasRsi(s) == ObjHas(symbolsData, s) /\ Len(ObjGet(symbolsData, s)) > 0

SnapshotStatus(s) ==
    LET series == ObjGet(symbolsData, s) IN StatusOf(series[Len(series)])

\* The status recorded for s before the latest evaluation.
RecordedBefore(s) == IF ObjHas(ev.prev, s) THEN ObjGet(ev.prev, s) ELSE "neutral"

\* How many of the toasts the latest evaluation queued are for s.
AddedFor(s) ==
    Cardinality({k \in (Len(toasts) - ev.added + 1)..Len(toasts) :
                    toasts[k].symbol = s})

\* The alert effect is the next step to run.
EvaluationDue == pendingFx # << >> /\ Head(pendingFx) = "alert"

\* C1: after an alert evaluation with alerting enabled on an allow-listed
\* timeframe, a toast was queued for a symbol exactly when the status of its
\* latest RSI value is overbought or oversold and differs from the status
\* recorded before (neutral when none was); otherwise none was queued.
C1_NotifyIffTransition ==
    (Evaluated /\ areAlertsEnabled /\ timeframe \in AllowList) =>
        \A s \in Symbols :
            AddedFor(s) = IF /\ HasRsi(s)
                             /\ SnapshotStatus(s) \in Extreme
                             /\ SnapshotStatus(s) # RecordedBefore(s)
                          THEN 1 ELSE 0

\* C1 witness: one evaluation queued a toast for a symbol entering an
\* extreme status and none for another symbol seen again in its extreme.
C1_Witness ==
    /\ Evaluated /\ areAlertsEnabled /\ timeframe \in AllowList
    /\ \E s, t \in Symbols :
          /\ HasRsi(s) /\ HasRsi(t)
          /\ SnapshotStatus(s) \in Extreme
          /\ SnapshotStatus(s) # RecordedBefore(s)
          /\ AddedFor(s) = 1
          /\ SnapshotStatus(t) \in Extreme
          /\ SnapshotStatus(t) = RecordedBefore(t)
          /\ AddedFor(t) = 0

\* C5: an alert evaluation that runs while alerting is disabled, or while
\* the timeframe is not on the allow-list, leaves the recorded statuses and
\* the toast queue as they were.
C5_ClosedGateInert ==
    [][(EvaluationDue /\ (~areAlertsEnabled \/ timeframe \notin AllowList)) =>
          /\ lastAlertedRsiStatus' = lastAlertedRsiStatus
          /\ toasts' = toasts]_vars

\* C5 witness: an evaluation ran with alerting disabled while toasts were
\* queued and a symbol of the snapshot had entered an extreme status that
\* is not recorded.
C5_Witness ==
    /\ Evaluated /\ ~areAlertsEnabled
    /\ toasts # << >>
    /\ \E s \in Symbols :
          /\ HasRsi(s)
          /\ SnapshotStatus(s) \in Extreme
          /\ SnapshotStatus(s) # RecordedBefore(s)

\* The log of the watched symbol: its ticks (snapshots carrying a value for
\* it) and the toggles of alerting, each with the toasts raised for it
\* before the next entry.
Entries == tickLog.entries

IsTick(i) == Entries[i].what = "tick"

IsToggle(i) == Entries[i].what = "toggle"

\* The evaluations that entry i causes have run.
Settled(i) == i < Len(Entries) \/ pendingFx = << >>

\* Entries 1..i are ticks that arrived while alerting was enabled.
EnabledTicksUpTo(i) == \A k \in 1..i : IsTick(k) /\ Entries[k].on

TickStatus(i) == StatusOf(Entries[i].rsi)

\* Tick i enters an extreme status from a different status (neutral before
\* the first tick).
Enters(i) ==
    /\ TickStatus(i) \in Extreme
    /\ TickStatus(i) # (IF i = 1 THEN "neutral" ELSE TickStatus(i - 1))

\* C2: over a run of refresh ticks with alerting enabled throughout, a tick
\* raises one notification for the symbol when its status enters overbought
\* or oversold from a different status and none otherwise, so the
\* notifications number the entering ticks.
C2_OnePerEntry ==
    \A i \in 1..Len(Entries) :
        (EnabledTicksUpTo(i) /\ Settled(i)) =>
            Entries[i].emitted = IF Enters(i) THEN 1 ELSE 0

\* C2 witness: the statuses neutral, overbought, overbought, neutral,
\* overbought arrived in that order and the second and fifth tick raised
\* the only two notifications.
C2_Witness ==
    /\ Len(Entries) = 5
    /\ EnabledTicksUpTo(5)
    /\ pendingFx = << >>
    /\ [k \in 1..5 |-> TickStatus(k)] =
          <<"neutral", "overbought", "overbought", "neutral", "overbought">>
    /\ [k \in 1..5 |-> Entries[k].emitted] = <<0, 1, 0, 0, 1>>

\* Entries i..i+2 are an overbought tick with alerting enabled, the toggle
\* that disables alerting and the toggle that enables it again.
OffOnAfterOverbought(i) ==
    /\ i + 2 <= Len(Entries)
    /\ IsTick(i) /\ Entries[i].on /\ Entries[i].rsi >= 70
    /\ IsToggle(i + 1) /\ ~Entries[i + 1].on
    /\ IsToggle(i + 2) /\ Entries[i + 2].on

\* C3: when a symbol was seen overbought with alerting enabled, alerting is
\* toggled off and on again, and the next tick is overbought too, neither
\* the toggles nor that tick raise a notification: the recorded status
\* survives the toggle.
C3_ToggleKeepsStatus ==
    \A i \in 1..Len(Entries) :
        OffOnAfterOverbought(i) =>
            /\ Entries[i + 1].emitted = 0
            /\ Settled(i + 2) => Entries[i + 2].emitted = 0
            /\ (/\ i + 3 <= Len(Entries)
                /\ IsTick(i + 3) /\ Entries[i + 3].rsi >= 70
                /\ Settled(i + 3)) => Entries[i + 3].emitted = 0

\* C3 witness: overbought tick that notified, off, on, overbought tick, all
\* evaluated.
C3_Witness ==
    \E i \in 1..Len(Entries) :
        /\ OffOnAfterOverbought(i)
        /\ Entries[i].emitted = 1
        /\ i + 3 = Len(Entries)
        /\ IsTick(i + 3) /\ Entries[i + 3].rsi >= 70
        /\ pendingFx = << >>

\* C4: enabling alerting raises no notification for a status change that
\* arrived while alerting was disabled: after a tick of extreme status
\* received with alerting off, the toggle that turns alerting on is silent.
C4_EnableIsSilent ==
    \A i \in 2..Len(Entries) :
        (/\ IsToggle(i) /\ Entries[i].on
         /\ IsTick(i - 1) /\ ~Entries[i - 1].on
         /\ TickStatus(i - 1) \in Extreme
         /\ Settled(i)) => Entries[i].emitted = 0

\* The symbols of the refresh cycle that just settled with a failure, and
\* those of them whose fetch failed.
CycleSymbols == Range(ev.cycle.symbols)

Failed == {s \in CycleSymbols : ~ev.outcomes[s].ok}

\* C6: when exactly one of the N fetches of a refresh cycle fails, the
\* snapshot after the cycle holds the fresh entries of the N-1 symbols that
\* succeeded and the failed symbol's prior entry unchanged.
C6_SiblingsSurviveFailure ==
    (ev.kind = "reject" /\ Cardinality(Failed) = 1) =>
        \A s \in CycleSymbols :
            IF s \in Failed
            THEN /\ ObjHas(symbolsData, s) = ObjHas(ev.before, s)
                 /\ ObjHas(symbolsData, s) =>
                        ObjGet(symbolsData, s) = ObjGet(ev.before, s)
            ELSE /\ ObjHas(symbolsData, s)
                 /\ ObjGet(symbolsData, s) = ev.outcomes[s].rsi

\* C7: at most one refresh cycle is in flight at any time.
C7_AtMostOneInFlight == Len(inFlight) <= 1

\* C8: a snapshot is never delivered from a refresh cycle that was started
\* for a timeframe or symbol list other than the current ones: the results
\* of a superseded cycle are discarded.
C8_StaleCycleDiscarded ==
    ev.kind = "resolve" =>
        /\ ev.cycle.timeframe = timeframe
        /\ ev.cycle.symbols = userSymbols

\* C9: the toasts of the queue carry distinct ids that increase in
\* insertion order, two toasts of one alert evaluation included.
C9_IdsUniqueIncreasing ==
    \A i, j \in 1..Len(toasts) : i < j => toasts[i].id < toasts[j].id

\* C10: every toast pushed to the queue is eventually removed from it,
\* whatever else happens in between.  Under SpecToastLive nothing is pushed
\* while the queue holds a toast, so a queue that never empties holds a
\* toast that is never removed.
C10_EveryToastRemoved == (toasts # << >>) ~> (toasts = << >>)

\* The latest alert evaluation ran past its guard.
EvaluatedActive ==
    /\ Evaluated /\ areAlertsEnabled /\ timeframe \in AllowList
    /\ symbolsData # << >>

RecordedNow(s) ==
    IF ObjHas(lastAlertedRsiStatus, s) THEN ObjGet(lastAlertedRsiStatus, s)
    ELSE "unrecorded"

\* C11: after an alert evaluation that ran with alerting active, the status
\* recorded for every symbol of the snapshot with a non-empty series is the
\* status of its latest RSI value, whether or not a toast was queued for it.
C11_StatusAlwaysRecorded ==
    EvaluatedActive =>
        \A s \in Symbols : HasRsi(s) => RecordedNow(s) = SnapshotStatus(s)

\* C11 witness: an evaluation recorded a status without queuing a toast: a
\* symbol recorded overbought is now neutral, and is recorded neutral.
C11_Witness ==
    /\ EvaluatedActive
    /\ \E s \in Symbols :
          /\ HasRsi(s)
          /\ RecordedBefore(s) = "overbought"
          /\ SnapshotStatus(s) = "neutral"
          /\ RecordedNow(s) = "neutral"
          /\ AddedFor(s) = 0

\* The toasts the latest evaluation queued for s.
NewToastsFor(s) ==
    {k \in (Len(toasts) - ev.added + 1)..Len(toasts) : toasts[k].symbol = s}

\* C12: the status of a symbol is computed from the last value of its
\* series alone: overbought exactly when that value is >= 70, oversold
\* exactly when it is <= 30, neutral otherwise (70 and 30 are extreme); a
\* toast carries that value and has the computed status as its kind.
C12_ThresholdClassification ==
    /\ \A k \in 1..Len(toasts) :
          toasts[k].type \in Extreme /\ toasts[k].type = StatusOf(toasts[k].rsi)
    /\ EvaluatedActive =>
          \A s \in Symbols :
              HasRsi(s) =>
                  LET series == ObjGet(symbolsData, s)
                      value == series[Len(series)]
                  IN  /\ RecordedNow(s) = StatusOf(value)
                      /\ \A k \in NewToastsFor(s) :
                            /\ toasts[k].rsi = value
                            /\ toasts[k].type = StatusOf(value)

\* C12 witness: a series that starts oversold and ends at 70 exactly raised
\* an overbought toast carrying 70.
C12_Witness ==
    /\ EvaluatedActive
    /\ HasRsi(WatchSymbol)
    /\ ObjGet(symbolsData, WatchSymbol) = <<29, 70>>
    /\ \E k \in NewToastsFor(WatchSymbol) :
          toasts[k].rsi = 70 /\ toasts[k].type = "overbought"

\* Symbol s is in the snapshot with an empty series.
EmptySeries(s) == ObjHas(symbolsData, s) /\ Len(ObjGet(symbolsData, s)) = 0

\* The record of s before the latest evaluation, "unrecorded" when none.
RecordOf(status, s) == IF ObjHas(status, s) THEN ObjGet(status, s) ELSE "unrecorded"

\* C13: an alert evaluation skips a symbol whose series in the snapshot is
\* empty: its record stays as it was (absent if it was absent) and no toast
\* is queued for it, while the other symbols of the snapshot are evaluated.
C13_EmptySeriesSkipped ==
    EvaluatedActive =>
        \A s \in Symbols :
            /\ EmptySeries(s) =>
                  /\ RecordOf(lastAlertedRsiStatus, s) = RecordOf(ev.prev, s)
                  /\ AddedFor(s) = 0
            /\ HasRsi(s) =>
                  /\ RecordedNow(s) = SnapshotStatus(s)
                  /\ AddedFor(s) = IF /\ SnapshotStatus(s) \in Extreme
                                      /\ SnapshotStatus(s) # RecordedBefore(s)
                                   THEN 1 ELSE 0

\* C13 witness: in one evaluation a symbol recorded overbought came with an
\* empty series and stayed overbought, and a toast was queued for the other
\* symbol.
C13_Witness ==
    /\ EvaluatedActive
    /\ \E s, t \in Symbols :
          /\ EmptySeries(s)
          /\ RecordOf(ev.prev, s) = "overbought"
          /\ RecordOf(lastAlertedRsiStatus, s) = "overbought"
          /\ HasRsi(t)
          /\ AddedFor(t) = 1

\* C14: the snapshot changes only by a wholesale replacement: when a
\* refresh cycle completes, by a snapshot whose keys are exactly the tracked
\* symbols of that cycle, each with what its fetch delivered; or, when no
\* symbol is tracked, by the empty snapshot.  No step leaves a snapshot with
\* entries for only some symbols of a cycle.
C14_WholesaleReplacement ==
    [][symbolsData' # symbolsData =>
          \/ /\ ev'.kind = "resolve"
             /\ ObjKeys(symbolsData') = ev'.cycle.symbols
          \/ /\ ev'.kind \in {"fetchFx", "interval"}
             /\ userSymbols = << >>
             /\ symbolsData' = << >>]_vars

\* C14 witness: a cycle for two symbols completed and the snapshot holds
\* both, with the different series their fetches delivered.
C14_Witness ==
    /\ ev.kind = "resolve"
    /\ ev.cycle.symbols = <<"A", "B">>
    /\ ObjKeys(symbolsData) = <<"A", "B">>
    /\ ObjGet(symbolsData, "A") # ObjGet(symbolsData, "B")

\* The ids of the toasts of a queue.
IdsOf(ts) == {ts[i].id : i \in 1..Len(ts)}

\* The state follows a call of removeToast.
Removed == ev.kind = "remove"

\* C15: removeToast is idempotent.  A call with an id that is not, or no
\* longer, in the queue leaves the queue as it was; and on the queue a call
\* leaves, a second call with the same id changes nothing.
C15_RemoveIdempotent ==
    Removed =>
        /\ ev.id \notin IdsOf(ev.before) => toasts = ev.before
        /\ RemoveToastFrom(toasts, ev.id) = toasts
        /\ RemoveToastFrom(RemoveToastFrom(ev.before, ev.id), ev.id)
              = RemoveToastFrom(ev.before, ev.id)

\* C15 witness: removeToast ran for a toast already removed (closed by the
\* user and expired as well) while another toast was queued, which stayed.
C15_Witness ==
    /\ Removed
    /\ ev.before # << >>
    /\ ev.id \notin IdsOf(ev.before)
    /\ toasts = ev.before

\* A toast without its id (the model renumbers ids, keeping their order).
Unlabelled(t) == [t EXCEPT !.id = 0]

\* C16: the queue is kept in insertion order.  A push leaves every queued
\* toast at its position and puts the new ones behind them; a removal by an
\* id that is queued takes out that one toast and leaves the others in
\* their order.
C16_InsertionOrderKept ==
    [][/\ EvaluationDue =>
             /\ Len(toasts') >= Len(toasts)
             /\ \A k \in 1..Len(toasts) :
                   Unlabelled(toasts'[k]) = Unlabelled(toasts[k])
       /\ (ev'.kind = "remove" /\ ev'.id \in IdsOf(toasts)) =>
             \E k \in 1..Len(toasts) :
                 /\ toasts[k].id = ev'.id
                 /\ toasts' = RemoveAt(toasts, k)]_vars

\* C18: removeToast runs at most once for a toast, whether it expires, is
\* closed, is closed repeatedly or is closed while it exits: every call of
\* removeToast finds the toast it is for still queued.
C18_RemovalFiresOnce == Removed => ev.id \in IdsOf(ev.before)

\* The initial state of a start-up whose stored items are known.
Booted == ev.kind = "mount" /\ "storage" \in DOMAIN ev

StorageKeys == {"allSymbols", "userSymbols", "favorites", "areAlertsEnabled"}

\* The item is present and is not JSON.
Malformed(item) == item.present /\ ~JsonParse(item.text).ok

InitialValues ==
    [allSymbols |-> ev.allSymbols, userSymbols |-> userSymbols,
     favorites |-> ev.favorites, areAlertsEnabled |-> areAlertsEnabled,
     failed |-> ev.failed]

\* C17: at start-up a stored value that is malformed JSON counts as an
\* absent one, for each of the four keys: the initial state is the one the
\* same storage gives with that key removed, and the first render does
\* not fail.  With all four malformed the state is the defaults.
C17_MalformedIsAbsent ==
    Booted =>
        /\ \A k \in StorageKeys :
              Malformed(ev.storage[k]) =>
                  InitialValues = BootValues([ev.storage EXCEPT ![k] = Absent])
        /\ (\A k \in StorageKeys : Malformed(ev.storage[k])) =>
              InitialValues = [allSymbols |-> DEFAULT_SYMBOLS,
                               userSymbols |-> DEFAULT_SYMBOLS,
                               favorites |-> << >>,
                               areAlertsEnabled |-> FALSE,
                               failed |-> FALSE]
        /\ ~ev.failed

\* C17 witness: the tracked symbols are stored malformed and all symbols
\* are stored as ["A"]: the program starts tracking ["A"], as it would
\* with no tracked symbols stored; the alerts flag is malformed and off.
C17_Witness ==
    /\ Booted
    /\ Malformed(ev.storage.userSymbols)
    /\ ev.storage.allSymbols = Stored(<<"[", "A", "]">>)
    /\ userSymbols = <<"A">>
    /\ Malformed(ev.storage.areAlertsEnabled)
    /\ ~areAlertsEnabled

\* The latest alert evaluation was the re-run that the status update of
\* the evaluation before it asked for: it ran next after that evaluation,
\* or after the refresh effect of the same commit (which leaves the
\* snapshot alone or, with nothing tracked, empties it).
Reevaluated == Evaluated /\ ev.after \in {"eval", "fetchFx"}

\* C19: the alert evaluation reaches a fixpoint.  The re-run that a status
\* update triggers, against the same snapshot, queues no toast, leaves the
\* status map as it is and asks for no further run.
C19_EvaluationFixpoint ==
    Reevaluated =>
        /\ ev.added = 0
        /\ lastAlertedRsiStatus = ev.prev
        /\ "alert" \notin Range(pendingFx)

\* C19 witness: the re-run came after an evaluation that queued a toast and
\* recorded its status; nothing is left to run.
C19_Witness ==
    /\ Reevaluated
    /\ toasts # << >>
    /\ lastAlertedRsiStatus # << >>
    /\ pendingFx = << >>

\* C20: a toast is labelled with the timeframe its RSI value was fetched
\* for: the timeframe of every toast an evaluation queues is the timeframe
\* of the refresh cycle that delivered the snapshot it was evaluated from.
C20_ToastTimeframeIsFetched ==
    Evaluated =>
        \A k \in (Len(toasts) - ev.added + 1)..Len(toasts) :
            toasts[k].timeframe = tickLog.fetchedFor

\* C21: a refresh cycle in which a fetch fails changes nothing in the
\* snapshot: when it settles, no entry is added, removed or replaced; the
\* failure is caught and fetchData runs to its end, which turns loading off.
C21_FailedCycleKeepsSnapshot ==
    ev.kind = "reject" =>
        /\ symbolsData = ev.before
        /\ ~loading

\* C21 witness: a cycle failed in which a sibling fetch delivered a series
\* other than the one the snapshot holds for its symbol, and the snapshot
\* still holds the old one.
C21_Witness ==
    /\ ev.kind = "reject"
    /\ symbolsData = ev.before
    /\ \E s \in CycleSymbols :
          /\ ev.outcomes[s].ok
          /\ ObjHas(symbolsData, s)
          /\ ObjGet(symbolsData, s) # ev.outcomes[s].rsi

\* C22: loading tracks the refresh work in flight: while loading is false
\* no refresh cycle is pending, and a pending cycle leads to loading being
\* false again.
C22_LoadingTracksInFlight ==
    /\ [](~loading => inFlight = << >>)
    /\ (inFlight # << >>) ~> ~loading

\* C23: the status map is written by the alert evaluation only, and per
\* symbol of the snapshot.  A step that is not an alert evaluation (a
\* timeframe change, a saved asset list, a settings reset among them) leaves
\* the map as it is; an alert evaluation leaves the recorded status of every
\* symbol absent from the snapshot as it is; and a symbol recorded overbought
\* whose latest value in the snapshot is overbought gets no toast from the
\* evaluation, whatever the timeframe and the tracked list were in between.
C23_StatusKeptForSession ==
    [][ /\ ev'.kind # "eval" => lastAlertedRsiStatus' = lastAlertedRsiStatus
        /\ ev'.kind = "eval" =>
              \A s \in Symbols :
                 /\ ~ObjHas(symbolsData, s) => RecordedNow(s)' = RecordedNow(s)
                 /\ HasRsi(s) /\ SnapshotStatus(s) = "overbought"
                       /\ RecordedNow(s) = "overbought"
                    => AddedFor(s)' = 0 /\ RecordedNow(s)' = "overbought"
      ]_vars

\* C23 witness: on another timeframe than the initial one, with alerting
\* active, an evaluation met a symbol recorded overbought whose latest value
\* is overbought and queued no toast for it, while a symbol that is no longer
\* tracked and is absent from the snapshot is still recorded overbought.
C23_Witness ==
    /\ EvaluatedActive
    /\ timeframe # "15m"
    /\ \E s \in Symbols :
          /\ HasRsi(s)
          /\ SnapshotStatus(s) = "overbought"
          /\ RecordedBefore(s) = "overbought"
          /\ AddedFor(s) = 0
    /\ \E t \in Symbols \ Range(userSymbols) :
          /\ ~ObjHas(symbolsData, t)
          /\ ObjHas(ev.prev, t)
          /\ RecordedNow(t) = "overbought"

=============================================================================
